---- MODULE Spec2Model ----
(***************************************************************************)
(* Model of src/active_user.py: the metric computations of the user        *)
(* activity dashboard, applied to one DataFrame `data` that every call     *)
(* shares (as main does).                                                  *)
(*                                                                         *)
(* A DataFrame is a sequence of rows; a row is a function from column      *)
(* names to values.  Dates are day ordinals, 0 = 2023-01-01 (a Sunday).    *)
(* A monthly Period is its month ordinal (1 = 2023-01), so that            *)
(* `month + 1` is the arithmetic successor, as for pandas Periods.         *)
(* A Series is a sequence of <<key, value>> pairs in index order.          *)
(* A float ratio n/d is the reduced pair <<n, d>>; NaN is <<0, 0>>.        *)
(***************************************************************************)
EXTENDS Integers, Sequences, FiniteSets, TLC

VARIABLES data, loaded, result

vars == <<data, loaded, result>>

\* ---- bounds of the model ------------------------------------------------
NumUsers == 2
MaxLen == 3

\* Sample activity dates: 2023-01-28, 2023-02-01, 2023-03-01.
\* 27 -> 31 is inside the 7-day window, 31 -> 59 inside the 30-day window
\* only, 27 -> 59 outside both; 27 and 59 leave February empty.
SampleDates == {27, 31, 59}

\* Caller-supplied date_range arguments of calculate_a30.
QueryRanges == {<<>>, <<31, 59>>}

Users == 1..NumUsers

Events == [user_id : Users, date : SampleDates]

Logs == UNION {[1..n -> Events] : n \in 0..MaxLen}

\* ---- calendar -----------------------------------------------------------
\* First day ordinal of 2023-01 .. 2023-06.
MonthStarts == <<0, 31, 59, 90, 120, 151>>

\* date.dt.to_period('M')
ToPeriodM(d) ==
    CHOOSE m \in 1..Len(MonthStarts) :
        /\ MonthStarts[m] <= d
        /\ (m = Len(MonthStarts) \/ d < MonthStarts[m + 1])

\* date.dt.to_period('W'): weeks run Monday..Sunday (W-SUN); day 0 is a Sunday.
ToPeriodW(d) == (d + 6) \div 7

\* date.dt.to_period(period)
ToPeriod(d, period) ==
    CASE period = "M" -> ToPeriodM(d)
      [] period = "W" -> ToPeriodW(d)
      [] OTHER -> d

\* PeriodIndex.to_timestamp(): the first day of the period.
ToTimestamp(p, period) ==
    CASE period = "M" -> MonthStarts[p]
      [] period = "W" -> 7 * p - 6
      [] OTHER -> p

\* ---- helpers ------------------------------------------------------------
Min(S) == CHOOSE x \in S : \A y \in S : x <= y

Max(S) == CHOOSE x \in S : \A y \in S : y <= x

RECURSIVE Ascending(_)
\* The elements of a finite set of integers in ascending order.
Ascending(S) == IF S = {} THEN <<>> ELSE <<Min(S)>> \o Ascending(S \ {Min(S)})

RECURSIVE GCD(_, _)
GCD(a, b) == IF b = 0 THEN a ELSE GCD(b, a % b)

\* Python / numpy float division n / d of two counts, d > 0.
Ratio(n, d) == <<n \div GCD(n, d), d \div GCD(n, d)>>

NaN == <<0, 0>>

RECURSIVE SumSeq(_)
SumSeq(s) == IF s = <<>> THEN 0 ELSE Head(s) + SumSeq(Tail(s))

\* data[name] = vals: adds the column, or overwrites it, in place.
SetColumn(df, name, vals) ==
    [i \in DOMAIN df |->
        [c \in DOMAIN df[i] \cup {name} |-> IF c = name THEN vals[i] ELSE df[i][c]]]

\* data[col].nunique() restricted to the rows in I
NUnique(df, I, col) == Cardinality({df[i][col] : i \in I})

UserIds(df) == {df[i]["user_id"] : i \in DOMAIN df}

\* data.groupby('user_id')[date_column].min()
FirstActivity(df) ==
    [u \in UserIds(df) |->
        Min({df[i]["date"] : i \in {j \in DOMAIN df : df[j]["user_id"] = u}})]

Ok(v) == [kind |-> "ok", err |-> "", val |-> v]

Raise(e) == [kind |-> "error", err |-> e, val |-> <<>>]

NoResult == [op |-> "none", arg |-> <<>>, out |-> Raise("")]

\* A float cell of a DataFrame: NaN, or the number x (a count in the pivot,
\* thousandths in the rounded retention matrix).
Cell(n) == [nan |-> FALSE, x |-> n]

NaNCell == [nan |-> TRUE, x |-> 0]

\* round(n / d, 3) in thousandths; no tie arises for d < 16.
Round3(n, d) == (2000 * n + d) \div (2 * d)

\* ---- calculate_retention ------------------------------------------------
\* Variant: only activity after the first event counts as retained.
within_days_after_first(date, first_activity_date, n) ==
    first_activity_date < date /\ date <= first_activity_date + n

\* date <= first_activity_date + timedelta(days=n)
within_days(date, first_activity_date, n) == date <= first_activity_date + n

\* unique_N_day: the rows inside the window, one per user_id
unique_n_day(df, n) ==
    LET first_activity == FirstActivity(df)
    IN  {df[i]["user_id"] : i \in {j \in DOMAIN df :
            within_days(df[j]["date"], first_activity[df[j]["user_id"]], n)}}

\* Variant: divides by len(data), the number of rows.
retention_denominator_rows(df) == Len(df)

\* len(first_activity)
retention_denominator(df) == Cardinality(DOMAIN FirstActivity(df))

calculate_retention_returns(df) ==
    LET denominator == retention_denominator(df)
    IN  IF denominator = 0
        THEN Raise("ZeroDivisionError")
        ELSE Ok(<<Ratio(Cardinality(unique_n_day(df, 7)), denominator),
                  Ratio(Cardinality(unique_n_day(df, 30)), denominator)>>)

calculate_retention ==
    /\ result' = [op |-> "calculate_retention", arg |-> <<>>,
                  out |-> calculate_retention_returns(data)]
    /\ UNCHANGED <<data, loaded>>

\* ---- calculate_a30 ------------------------------------------------------
\* active_users(date): distinct users in [date - 29 days, date]
a30_active_users(df, date) ==
    NUnique(df, {i \in DOMAIN df : df[i]["date"] >= date - 29 /\ df[i]["date"] <= date},
            "user_id")

calculate_a30_returns(df, date_range) ==
    Ok([k \in 1..Len(date_range) |-> a30_active_users(df, date_range[k])])

calculate_a30(date_range) ==
    /\ result' = [op |-> "calculate_a30", arg |-> date_range,
                  out |-> calculate_a30_returns(data, date_range)]
    /\ UNCHANGED <<data, loaded>>

\* ---- cohort_analysis ----------------------------------------------------
\* Variant: transform('max'), the month of the latest activity.
cohort_column_max(df) ==
    [i \in DOMAIN df |->
        ToPeriodM(Max({df[j]["date"] : j \in {k \in DOMAIN df :
                          df[k]["user_id"] = df[i]["user_id"]}}))]

\* data.groupby('user_id')['date'].transform('min').dt.to_period('M')
cohort_column(df) ==
    LET first_activity == FirstActivity(df)
    IN  [i \in DOMAIN df |-> ToPeriodM(first_activity[df[i]["user_id"]])]

\* (data['date'].dt.to_period('M') - data['Cohort']).apply(lambda x: x.n)
cohort_period_column(df) ==
    [i \in DOMAIN df |-> ToPeriodM(df[i]["date"]) - df[i]["Cohort"]]

\* data after the two column assignments of cohort_analysis
cohort_analysis_frame(df) ==
    LET withCohort == SetColumn(df, "Cohort", cohort_column(df))
    IN  SetColumn(withCohort, "CohortPeriod", cohort_period_column(withCohort))

\* cohort_data pivoted: index Cohort, columns CohortPeriod (both ascending),
\* the distinct-user count of the group, NaN where the group is absent.
cohort_pivot(df) ==
    LET f    == cohort_analysis_frame(df)
        idx  == Ascending({f[i]["Cohort"] : i \in DOMAIN f})
        cols == Ascending({f[i]["CohortPeriod"] : i \in DOMAIN f})
        rows(c, p) == {i \in DOMAIN f : f[i]["Cohort"] = c /\ f[i]["CohortPeriod"] = p}
    IN  [index |-> idx, columns |-> cols,
         cells |-> [r \in 1..Len(idx) |-> [k \in 1..Len(cols) |->
                       IF rows(idx[r], cols[k]) = {} THEN NaNCell
                       ELSE Cell(NUnique(f, rows(idx[r], cols[k]), "user_id"))]]]

\* cohort_pivot.iloc[:,0]: the first column, whatever its offset
cohort_size(pivot) == [r \in 1..Len(pivot.index) |-> pivot.cells[r][1]]

\* cohort_pivot.divide(cohort_size, axis=0).round(3)
divide_round(count, size) ==
    IF count.nan \/ size.nan THEN NaNCell ELSE Cell(Round3(count.x, size.x))

\* An empty frame pivots to a table without columns, and iloc[:,0] raises.
cohort_analysis_returns(df) ==
    IF df = <<>>
    THEN Raise("IndexError")
    ELSE LET pv   == cohort_pivot(df)
             size == cohort_size(pv)
         IN  Ok([index |-> pv.index, columns |-> pv.columns,
                 cells |-> [r \in 1..Len(pv.index) |-> [k \in 1..Len(pv.columns) |->
                               divide_round(pv.cells[r][k], size[r])]]])

cohort_analysis ==
    /\ result' = [op |-> "cohort_analysis", arg |-> <<>>,
                  out |-> cohort_analysis_returns(data)]
    /\ data' = cohort_analysis_frame(data)
    /\ UNCHANGED loaded

\* ---- calculate_active_users ---------------------------------------------
calculate_active_users_returns(df, period) ==
    LET keys == {ToPeriod(df[i]["date"], period) : i \in DOMAIN df}
        idx  == Ascending(keys)
    IN  Ok([k \in 1..Len(idx) |->
              <<ToTimestamp(idx[k], period),
                NUnique(df, {i \in DOMAIN df : ToPeriod(df[i]["date"], period) = idx[k]},
                        "user_id")>>])

calculate_active_users(period) ==
    /\ result' = [op |-> "calculate_active_users", arg |-> <<period>>,
                  out |-> calculate_active_users_returns(data, period)]
    /\ UNCHANGED <<data, loaded>>

\* ---- user_acquisition ---------------------------------------------------
\* Variant: groups the rows of data itself, without taking the minimum.
first_activity_rows_all(df) == {<<df[i]["user_id"], df[i]["date"]>> : i \in DOMAIN df}

\* first_activity: one (user_id, date) row per user, its earliest date
first_activity_rows(df) == {<<u, FirstActivity(df)[u]>> : u \in UserIds(df)}

user_acquisition_returns(df) ==
    LET fa   == first_activity_rows(df)
        idx  == Ascending({ToPeriodM(r[2]) : r \in fa})
    IN  Ok([k \in 1..Len(idx) |->
              <<ToTimestamp(idx[k], "M"),
                Cardinality({r[1] : r \in {q \in fa : ToPeriodM(q[2]) = idx[k]}})>>])

user_acquisition ==
    /\ result' = [op |-> "user_acquisition", arg |-> <<>>,
                  out |-> user_acquisition_returns(data)]
    /\ UNCHANGED <<data, loaded>>

\* ---- calculate_monthly_churn --------------------------------------------
\* Variant: also truncates the date column to the month's first day.
calculate_monthly_churn_frame_truncates(df) ==
    SetColumn(SetColumn(df, "Month", [i \in DOMAIN df |-> ToPeriodM(df[i]["date"])]),
              "date", [i \in DOMAIN df |-> ToTimestamp(ToPeriodM(df[i]["date"]), "M")])

\* data['Month'] = data['date'].dt.to_period('M')
calculate_monthly_churn_frame(df) ==
    SetColumn(df, "Month", [i \in DOMAIN df |-> ToPeriodM(df[i]["date"])])

\* data.groupby('Month')['user_id'].unique(), as sets
monthly_users(df) ==
    LET f == calculate_monthly_churn_frame(df)
    IN  [m \in {f[i]["Month"] : i \in DOMAIN f} |->
            {f[i]["user_id"] : i \in {j \in DOMAIN f : f[j]["Month"] = m}}]

\* Variant: symmetric difference of the two sets.
churned_symmetric(current_month_users, next_month_users) ==
    Cardinality((current_month_users \ next_month_users)
                    \cup (next_month_users \ current_month_users))

\* len(current_month_users - next_month_users)
churned(current_month_users, next_month_users) ==
    Cardinality(current_month_users \ next_month_users)

\* The loop reads monthly_users[month + 1], a KeyError when that month has no
\* rows; an empty dict makes a Series whose index has no to_timestamp.
calculate_monthly_churn_returns(df) ==
    LET mu     == monthly_users(df)
        idx    == Ascending(DOMAIN mu)
        months == SubSeq(idx, 1, Len(idx) - 1)
    IN  IF \E k \in 1..Len(months) : months[k] + 1 \notin DOMAIN mu
        THEN Raise("KeyError")
        ELSE IF months = <<>>
        THEN Raise("AttributeError")
        ELSE Ok([k \in 1..Len(months) |->
                   <<ToTimestamp(months[k], "M"),
                     churned(mu[months[k]], mu[months[k] + 1])>>])

calculate_monthly_churn ==
    /\ result' = [op |-> "calculate_monthly_churn", arg |-> <<>>,
                  out |-> calculate_monthly_churn_returns(data)]
    /\ data' = calculate_monthly_churn_frame(data)
    /\ UNCHANGED loaded

\* ---- calculate_average_churn --------------------------------------------
\* Series.mean(): NaN for an empty series
series_mean(series) ==
    IF series = <<>> THEN NaN
    ELSE Ratio(SumSeq([k \in 1..Len(series) |-> series[k][2]]), Len(series))

calculate_average_churn_returns(df) ==
    LET monthly_churn == calculate_monthly_churn_returns(df)
    IN  IF monthly_churn.kind = "error" THEN monthly_churn
        ELSE Ok(series_mean(monthly_churn.val))

calculate_average_churn ==
    /\ result' = [op |-> "calculate_average_churn", arg |-> <<>>,
                  out |-> calculate_average_churn_returns(data)]
    /\ data' = calculate_monthly_churn_frame(data)
    /\ UNCHANGED loaded

\* ---- the program --------------------------------------------------------
\* data = load_data(uploaded_file): rows of (user_id, date)
Init ==
    /\ data \in Logs
    /\ loaded = data
    /\ result = NoResult

Next ==
    \/ \E period \in {"M", "D", "W"} : calculate_active_users(period)
    \/ calculate_retention
    \/ \E date_range \in QueryRanges : calculate_a30(date_range)
    \/ cohort_analysis
    \/ user_acquisition
    \/ calculate_monthly_churn
    \/ calculate_average_churn

Spec == Init /\ [][Next]_vars

\* ---- properties ---------------------------------------------------------
\* The months, users and dates of the log as it was loaded.
LoadedMonths == {ToPeriodM(loaded[i]["date"]) : i \in DOMAIN loaded}

LoadedUsersIn(m) ==
    {loaded[i]["user_id"] : i \in {j \in DOMAIN loaded : ToPeriodM(loaded[j]["date"]) = m}}

LoadedDates(u) == {loaded[i]["date"] : i \in {j \in DOMAIN loaded : loaded[j]["user_id"] = u}}

Called(op) == result.op = op

Returned(op) == result.op = op /\ result.out.kind = "ok"

SameOutcome(a, b) ==
    /\ a.kind = b.kind
    /\ a.err = b.err
    /\ (a.kind = "ok" => a.val = b.val)

\* What the operation op returns when applied to the frame df.
Returns(op, arg, df) ==
    CASE op = "calculate_active_users" -> calculate_active_users_returns(df, arg[1])
      [] op = "calculate_retention" -> calculate_retention_returns(df)
      [] op = "calculate_a30" -> calculate_a30_returns(df, arg)
      [] op = "cohort_analysis" -> cohort_analysis_returns(df)
      [] op = "user_acquisition" -> user_acquisition_returns(df)
      [] op = "calculate_monthly_churn" -> calculate_monthly_churn_returns(df)
      [] op = "calculate_average_churn" -> calculate_average_churn_returns(df)

\* C1: for every month M of the log other than the last one whose successor
\* M+1 has no events, calculate_monthly_churn completes normally and reports
\* churn(M) = |users(M)|.
C1_GapMonthCountsAllUsers ==
    (Called("calculate_monthly_churn") /\ LoadedMonths # {}) =>
        \A m \in LoadedMonths \ {Max(LoadedMonths)} :
            (m + 1) \notin LoadedMonths =>
                /\ result.out.kind = "ok"
                /\ \E k \in 1..Len(result.out.val) :
                       result.out.val[k] =
                           <<ToTimestamp(m, "M"), Cardinality(LoadedUsersIn(m))>>

\* C2: when the churn series has no entries (empty log, or a single month),
\* calculate_average_churn fails with a division-undefined error.
C2_AverageOfNothingIsDivisionError ==
    (Called("calculate_average_churn") /\ Cardinality(LoadedMonths) <= 1) =>
        /\ result.out.kind = "error"
        /\ result.out.err = "ZeroDivisionError"

\* C3: calculate_monthly_churn returns a series whose keys are exactly the
\* months of the log minus the last one (an empty series for a single month),
\* without raising.
C3_ChurnKeysAreAllButLastMonth ==
    Called("calculate_monthly_churn") =>
        /\ result.out.kind = "ok"
        /\ {result.out.val[k][1] : k \in 1..Len(result.out.val)} =
               {ToTimestamp(m, "M") : m \in
                   LoadedMonths \ (IF LoadedMonths = {} THEN {} ELSE {Max(LoadedMonths)})}

\* C4: no metric computation modifies the event log: after any sequence of
\* calls it holds the same records with the same fields as when loaded.
C4_LogIsNeverModified == data = loaded

\* C5: every computation returns what it returns on the freshly loaded log,
\* whatever calls were made on the same log object before it.
C5_IndependentOfCallHistory ==
    result.op # "none" =>
        SameOutcome(result.out, Returns(result.op, result.arg, loaded))

\* C5 witness: active users by day computed after both churn and cohort
\* analysis have written their columns into the shared frame.
C5_Witness ==
    /\ Returned("calculate_active_users")
    /\ result.arg = <<"D">>
    /\ Len(result.out.val) >= 2
    /\ \E i \in DOMAIN data : {"Month", "Cohort", "CohortPeriod"} \subseteq DOMAIN data[i]

\* C6: for a non-empty log both retention ratios are in (0, 1].
C6_RetentionInUnitInterval ==
    (Called("calculate_retention") /\ loaded # <<>>) =>
        /\ result.out.kind = "ok"
        /\ \A k \in 1..2 :
               /\ 0 < result.out.val[k][1]
               /\ result.out.val[k][1] <= result.out.val[k][2]

\* C6 witness: retention computed for a log where some user's only later
\* activity is more than 30 days after the first.
C6_Witness ==
    /\ Returned("calculate_retention")
    /\ \E u \in UserIds(loaded) :
           /\ Cardinality(LoadedDates(u)) = 2
           /\ Max(LoadedDates(u)) > Min(LoadedDates(u)) + 30

\* C7: each user is counted in exactly one acquisition bucket, the month of
\* the user's earliest event, so the counts sum to the number of users.
C7_AcquisitionPartitionsUsers ==
    Called("user_acquisition") =>
        /\ result.out.kind = "ok"
        /\ SumSeq([k \in 1..Len(result.out.val) |-> result.out.val[k][2]]) =
               Cardinality(UserIds(loaded))
        /\ \A k \in 1..Len(result.out.val) :
               result.out.val[k][2] =
                   Cardinality({u \in UserIds(loaded) :
                       ToTimestamp(ToPeriodM(Min(LoadedDates(u))), "M") =
                           result.out.val[k][1]})

\* C7 witness: acquisition over a log with a duplicated event and a user
\* active in two months.
C7_Witness ==
    /\ Returned("user_acquisition")
    /\ \E i, j \in DOMAIN loaded : i # j /\ loaded[i] = loaded[j]
    /\ \E u \in UserIds(loaded) :
           ToPeriodM(Min(LoadedDates(u))) # ToPeriodM(Max(LoadedDates(u)))

\* C8: the first pivot column is offset 0, the divisor of every cohort is its
\* number of distinct users, and the ratio at CohortPeriod 0 is exactly 1.0.
C8_CohortPeriodZeroIsOne ==
    Returned("cohort_analysis") =>
        /\ result.out.val.columns[1] = 0
        /\ \A r \in 1..Len(result.out.val.index) :
               /\ cohort_size(cohort_pivot(loaded))[r] =
                      Cell(Cardinality({u \in UserIds(loaded) :
                          ToPeriodM(Min(LoadedDates(u))) = result.out.val.index[r]}))
               /\ result.out.val.cells[r][1] = Cell(1000)

\* C8 witness: a matrix with two cohorts, one of them of two users of whom
\* one returns a month later.
C8_Witness ==
    /\ Returned("cohort_analysis")
    /\ Len(result.out.val.index) >= 2
    /\ Len(result.out.val.columns) >= 2

\* C9: every churn value is a natural number no larger than the number of
\* distinct users active in its month.
C9_ChurnBoundedByActiveUsers ==
    Returned("calculate_monthly_churn") =>
        \A k \in 1..Len(result.out.val) :
            /\ result.out.val[k][2] \in Nat
            /\ \E j \in 1..Len(calculate_active_users_returns(loaded, "M").val) :
                   /\ calculate_active_users_returns(loaded, "M").val[j][1] =
                          result.out.val[k][1]
                   /\ result.out.val[k][2] <=
                          calculate_active_users_returns(loaded, "M").val[j][2]

\* C9 witness: a churn series with a month in which some, but not all, of
\* the active users churned.
C9_Witness ==
    /\ Returned("calculate_monthly_churn")
    /\ \E k \in 1..Len(result.out.val) :
           /\ result.out.val[k][2] >= 1
           /\ \E j \in 1..Len(calculate_active_users_returns(loaded, "M").val) :
                  /\ calculate_active_users_returns(loaded, "M").val[j][1] =
                         result.out.val[k][1]
                  /\ result.out.val[k][2] <
                         calculate_active_users_returns(loaded, "M").val[j][2]

\* C10: for a non-empty log calculate_retention returns exactly (1.0, 1.0),
\* whether or not any user has later activity inside or outside the windows.
C10_RetentionIsAlwaysOne ==
    (Called("calculate_retention") /\ loaded # <<>>) =>
        SameOutcome(result.out, Ok(<<Ratio(1, 1), Ratio(1, 1)>>))

\* C10 witness: retention computed for two users, one seen on a single day
\* only (twice), the other returning within 7 days.
C10_Witness ==
    /\ Returned("calculate_retention")
    /\ \E u, v \in UserIds(loaded) :
           /\ u # v
           /\ Cardinality(LoadedDates(u)) = 1
           /\ Cardinality(LoadedDates(v)) = 2
           /\ Max(LoadedDates(v)) <= Min(LoadedDates(v)) + 7
====
